---- MODULE Spec2Model ----
(***************************************************************************)
(* PassPhraseX: the credential vault of the command line client            *)
(* (cli/src/lib.rs), its HTTP wrapper (cli/src/api.rs), the key pair       *)
(* (common/src/crypto/asymmetric.rs), the remote store                     *)
(* (api/src/service/password.rs) and the background script of the browser  *)
(* extension (extension/background-script/src/lib.rs).                     *)
(*                                                                         *)
(* Every operation of the vault is one action.  What the environment       *)
(* decides (the outcome of a remote call, whether a file write succeeds,   *)
(* the step at which register stops) is an input of the action.            *)
(***************************************************************************)
EXTENDS Naturals, Sequences, FiniteSets, TLC

(***************************************************************************)
(* Bounds.                                                                 *)
(***************************************************************************)
\* Calls of add and edit over a run that get as far as sealing a field.
MaxSeals == 2

Devices == {"d1", "d2"}
\* Sites and usernames are strings; "a" \o "bc" = "ab" \o "c".
Sites == {"a", "ab"}
Usernames == {"bc", "c"}
\* The (site, username) pairs the commands are given: two whose
\* concatenations are the same string, and a third under the site of the first.
Pairs == {<<"a", "bc">>, <<"ab", "c">>, <<"a", "c">>}
\* The password add is given, and the one edit replaces it with.
AddedPlaintexts == {"x"}
EditedPlaintexts == {"y"}
DevicePasswords == {"hunter2", "wrong"}
ValidSeeds == {"seed1", "seed2"}
InvalidSeeds == {"notamnemonic"}
Seeds == ValidSeeds \cup InvalidSeeds

\* Outcome of one HTTP exchange: the store handled the request, the request
\* never reached it (reqwest's send fails), or the store's database call failed.
Outcomes == {"ok", "transport", "store_err"}

(***************************************************************************)
(* Option values and maps (HashMap).                                       *)
(***************************************************************************)
None == << >>
Some(v) == <<v>>
IsSome(o) == o # << >>
Unwrap(o) == o[1]

\* The least natural number from 1 on that is not in s.
LeastNotIn(s) ==
    CHOOSE n \in 1..(Cardinality(s) + 1) : n \notin s /\ \A m \in 1..(n - 1) : m \in s

EmptyMap == << >>
Put(m, k, v) == [x \in (DOMAIN m) \cup {k} |-> IF x = k THEN v ELSE m[x]]
Remove(m, k) == [x \in (DOMAIN m) \ {k} |-> m[x]]

(***************************************************************************)
(* Key pair and credential cipher.                                         *)
(***************************************************************************)
PublicKeyOf(sk) == <<"pk", sk[2]>>

KeyPairFromSk(sk) == [private_key |-> sk, public_key |-> PublicKeyOf(sk)]

\* Mnemonic::new fails on a phrase outside the word list or with a bad checksum.
KeyPairTryNew(seed) ==
    IF seed \in ValidSeeds
    THEN Some(KeyPairFromSk(<<"sk", seed>>))
    ELSE None

GetPk(kp) == kp.public_key

\* The box is built from the pair's own public and private key; the nonce is
\* the one the caller drew.
Encrypt(kp, message, n) ==
    [cipher |-> [pk |-> kp.public_key, sk |-> kp.private_key, nonce |-> n, msg |-> message],
     nonce |-> n]

\* Opens only with the same key pair and nonce; the code unwraps the result.
Decrypt(kp, enc) ==
    IF /\ enc.cipher.pk = kp.public_key
       /\ enc.cipher.sk = kp.private_key
       /\ enc.cipher.nonce = enc.nonce
    THEN enc.cipher.msg
    ELSE "PANIC"

\* SecretKey::from([0; 32]): the key sign and verify have in common; it is
\* written in the source.
ZeroSk == <<"sk", "zero">>

\* ChaChaBox::new(public_key, private_key): the key of the box is the
\* Diffie-Hellman secret of the two key pairs, the same whichever of the two
\* gives its private key.
ChaChaBox(public_key, private_key) == {public_key[2], private_key[2]}

\* The box sealing a message under the nonce drawn.
BoxEncrypt(box, message, n) ==
    [cipher |-> [box |-> box, nonce |-> n, msg |-> message], nonce |-> n]

\* KeyPair::sign: the box of the zero key's public key and the signer's
\* private key.
Sign(kp, message, n) ==
    BoxEncrypt(ChaChaBox(PublicKeyOf(ZeroSk), kp.private_key), message, n)

\* verify: the box of the public key and the zero private key opens the
\* value; Some(message), or None for "Failed to decrypt".
Verify(public_key, value) ==
    IF /\ value.cipher.box = ChaChaBox(public_key, ZeroSk)
       /\ value.cipher.nonce = value.nonce
    THEN Some(value.cipher.msg)
    ELSE None

\* hash(message, salt = base64(public key)).cipher: a function of the message
\* and the public key.
Hash(kp, message) == <<"h", kp.public_key, message>>

\* The message every caller hashes: format!("{}{}", site, username).
CredentialId(kp, site, username) == Hash(kp, site \o username)

(***************************************************************************)
(* Remote store: users maps a public key to None (no such user) or to      *)
(* Some(the user's passwords array).                                       *)
(***************************************************************************)
PublicKeys == {PublicKeyOf(<<"sk", s>>) : s \in ValidSeeds}

\* The document add_password puts in the array.
Doc(password) ==
    [id |-> password.id, site |-> password.site,
     username |-> password.username, password |-> password.password]

InSeq(s, x) == \E i \in 1..Len(s) : s[i] = x

\* Every service call answers [ok, done, users, passwords]: done says that the
\* store carried the request out.
ServiceListPasswords(users, user_id) ==
    IF IsSome(users[user_id])
    THEN [ok |-> TRUE, done |-> TRUE, users |-> users, passwords |-> Unwrap(users[user_id])]
    ELSE [ok |-> FALSE, done |-> FALSE, users |-> users, passwords |-> << >>]

\* $addToSet: appended unless an equal document is already in the array.
ServiceAddPassword(users, user_id, password) ==
    IF IsSome(users[user_id])
    THEN LET arr == Unwrap(users[user_id])
             new == IF InSeq(arr, Doc(password)) THEN arr ELSE Append(arr, Doc(password))
         IN  [ok |-> TRUE, done |-> TRUE, users |-> [users EXCEPT ![user_id] = Some(new)], passwords |-> << >>]
    ELSE [ok |-> FALSE, done |-> FALSE, users |-> users, passwords |-> << >>]

\* $pull: every element with that _id is removed.
ServiceDeletePassword(users, user_id, password_id) ==
    IF IsSome(users[user_id])
    THEN LET arr == Unwrap(users[user_id])
             new == SelectSeq(arr, LAMBDA d : d.id # password_id)
         IN  [ok |-> TRUE, done |-> TRUE, users |-> [users EXCEPT ![user_id] = Some(new)], passwords |-> << >>]
    ELSE [ok |-> FALSE, done |-> FALSE, users |-> users, passwords |-> << >>]

\* $set with arrayFilters: every element with that _id gets the password.
ServiceModifyPassword(users, user_id, password_id, password) ==
    IF IsSome(users[user_id])
    THEN LET arr == Unwrap(users[user_id])
             new == [i \in 1..Len(arr) |->
                        IF arr[i].id = password_id
                        THEN [arr[i] EXCEPT !.password = password]
                        ELSE arr[i]]
         IN  [ok |-> TRUE, done |-> TRUE, users |-> [users EXCEPT ![user_id] = Some(new)], passwords |-> << >>]
    ELSE [ok |-> FALSE, done |-> FALSE, users |-> users, passwords |-> << >>]

\* createIdentity(public_key): a new user with no passwords.
ServiceCreateUser(users, user_id) ==
    IF IsSome(users[user_id])
    THEN [ok |-> FALSE, done |-> FALSE, users |-> users, passwords |-> << >>]
    ELSE [ok |-> TRUE, done |-> TRUE, users |-> [users EXCEPT ![user_id] = Some(<< >>)], passwords |-> << >>]

\* What reaches the client: the service's answer, or nothing stored at all.
Exchange(outcome, users, answer) ==
    IF outcome = "ok" THEN answer
    ELSE [ok |-> FALSE, done |-> FALSE, users |-> users, passwords |-> << >>]

(***************************************************************************)
(* Client wrapper.  Each call answers [ok, done, users, passwords]: ok is   *)
(* what the caller sees, users the store after the call.                   *)
(***************************************************************************)
\* Ok(_) for any response, Err only when send itself fails.
ApiCreateUser(outcome, users, public_key) ==
    LET r == Exchange(outcome, users, ServiceCreateUser(users, public_key))
    IN  [r EXCEPT !.ok = (outcome # "transport")]

\* send().await? and then Ok(()): the response's status is not looked at.
ApiAddPassword(outcome, users, public_key, password) ==
    LET r == Exchange(outcome, users, ServiceAddPassword(users, public_key, password))
    IN  [r EXCEPT !.ok = (outcome # "transport")]

\* The three wrappers below are called by the vault; a failed call is an error.
ApiGetPasswords(outcome, users, public_key) ==
    Exchange(outcome, users, ServiceListPasswords(users, public_key))

ApiEditPassword(outcome, users, public_key, password_id, password) ==
    Exchange(outcome, users, ServiceModifyPassword(users, public_key, password_id, password))

ApiDeletePassword(outcome, users, public_key, password_id) ==
    Exchange(outcome, users, ServiceDeletePassword(users, public_key, password_id))

(***************************************************************************)
(* The vault (struct App) and the files of one device.                     *)
(***************************************************************************)
\* Password::encrypt / Password::decrypt: the username and the password
\* field are sealed, each with a nonce of its own; id, user_id and site stay.
PasswordEncrypt(kp, password, n1, n2) ==
    [password EXCEPT !.username = Encrypt(kp, password.username, n1),
                     !.password = Encrypt(kp, password.password, n2)]

PasswordDecrypt(kp, password) ==
    [password EXCEPT !.username = Decrypt(kp, password.username),
                     !.password = Decrypt(kp, password.password)]

\* What the client reads back from a stored document.
PasswordFromDoc(user_id, d) ==
    [id |-> d.id, user_id |-> user_id, site |-> d.site,
     username |-> d.username, password |-> d.password]

VerifyCredentialsExist(a, site, username) ==
    /\ site \in DOMAIN a.credentials
    /\ CredentialId(a.key_pair, site, username) \in DOMAIN a.credentials[site]

VerifyCredentialsDontExist(a, site, username) ==
    ~VerifyCredentialsExist(a, site, username)

\* credentials.entry(site).or_insert(HashMap::new())
Bucket(credentials, site) ==
    IF site \in DOMAIN credentials THEN credentials[site] ELSE EmptyMap

\* The loop of sync_with_api over the first k fetched documents: a later
\* document with the same site and id replaces an earlier one.
RECURSIVE Arrange(_, _, _)
Arrange(passwords, user_id, k) ==
    IF k = 0 THEN EmptyMap
    ELSE LET prev == Arrange(passwords, user_id, k - 1)
             p == PasswordFromDoc(user_id, passwords[k])
         IN  Put(prev, p.site, Put(Bucket(prev, p.site), p.id, p))

\* sync_with_api: [ok, fetched, credentials, data], data being the cache
\* file after the call.
SyncWithApi(outcome, writeOk, users, key_pair, data) ==
    LET r == ApiGetPasswords(outcome, users, GetPk(key_pair))
        credentials == Arrange(r.passwords, GetPk(key_pair), Len(r.passwords))
    IN  IF ~r.ok
        THEN [ok |-> FALSE, fetched |-> FALSE, credentials |-> EmptyMap, data |-> data]
        ELSE IF ~writeOk
        THEN [ok |-> FALSE, fetched |-> TRUE, credentials |-> EmptyMap, data |-> data]
        ELSE [ok |-> TRUE, fetched |-> TRUE, credentials |-> credentials,
              data |-> Some(credentials)]

\* App::get: [ok, err, out], out the set of decrypted credentials returned.
AppGet(a, site, username) ==
    IF site \notin DOMAIN a.credentials
    THEN [ok |-> FALSE, err |-> "No passwords found", out |-> {}]
    ELSE LET passwords == a.credentials[site] IN
         IF IsSome(username)
         THEN LET id == CredentialId(a.key_pair, site, Unwrap(username)) IN
              IF id \notin DOMAIN passwords
              THEN [ok |-> FALSE, err |-> "Password not found", out |-> {}]
              ELSE [ok |-> TRUE, err |-> "",
                    out |-> {PasswordDecrypt(a.key_pair, passwords[id])}]
         ELSE [ok |-> TRUE, err |-> "",
               out |-> {PasswordDecrypt(a.key_pair, passwords[id]) : id \in DOMAIN passwords}]

\* The steps of register that can fail before the remote call, in order.
RegisterSteps == <<"hash", "write_hash", "wrap", "write_sk", "write_data">>
\* The steps of auth_device that can fail before the sync, in order.
AuthSteps == <<"hash", "derive", "write_hash", "write_sk">>

StepIndex(steps, s) == CHOOSE i \in 1..Len(steps) : steps[i] = s
\* The run passed step s: it failed at no step, or at a later one.
Passed(steps, failAt, s) ==
    failAt = "none" \/ StepIndex(steps, failAt) > StepIndex(steps, s)

FailPoints(steps) == {"none"} \cup {steps[i] : i \in 1..Len(steps)}

VARIABLES
    files,      \* per device: the password hash, the wrapped key, the cache file
    app,        \* per device: None, or Some(the running App)
    users,      \* the remote store
    seals,      \* calls of add and edit that sealed a field in this behaviour
    seedsUsed,  \* seed phrases SeedPhrase::new has produced
    last,       \* the last operation and what it returned
    added,      \* (pk, site, username) -> plaintext password of an add that returned Ok, not edited or deleted since
    deleted     \* (pk, site, username) of a delete that returned Ok, not added since

\* The command line client, its files and the store.
cliVars == <<files, app, users, seals, seedsUsed, last, added, deleted>>

(***************************************************************************)
(* The background script of the extension.                                 *)
(***************************************************************************)
VARIABLES
    bgApp,      \* the App behind the Rc<RefCell<..>> that every listener shares
    bgPorts,    \* per browser port: None, or Some(port_id) its listeners captured
    bgPending,  \* one-shot requests that have their id and whose future has not run
    bgStorage,  \* StorageSecretKey in the browser's storage
    bgIds,      \* the ids handed out so far: by connect, per port, to one-shot requests
    bgLast      \* the last event of the background script and what it did

extVars == <<bgApp, bgPorts, bgPending, bgStorage, bgIds, bgLast>>

\* The tokens of sign and verify.
VARIABLES
    issued,     \* the tokens made so far, each with the key that sealed it
    verified    \* the last call of verify: its arguments and its answer

sigVars == <<issued, verified>>

vars == <<files, app, users, seals, seedsUsed, last, added, deleted,
          bgApp, bgPorts, bgPending, bgStorage, bgIds, bgLast,
          issued, verified>>

\* No token made, verify not yet called.
SigInit ==
    /\ issued = {}
    /\ verified = None

\* The browser ports that may connect.
Handles == {"p1", "p2"}

\* messages::INITIAL_REQUEST_ID
INITIAL_REQUEST_ID == 0
FIRST_PORT_ID == 1

\* messages::next_request_id(last_request_id)
NextRequestId(last_request_id) == last_request_id + 1

\* ConnectedPorts::default()
DefaultConnectedPorts == [last_id |-> 0, ctx_by_id |-> EmptyMap]

\* App::default(): what app.take() leaves behind.
DefaultApp ==
    [last_request_id |-> 0, connected_ports |-> DefaultConnectedPorts, key_pair |-> None]

\* PortContext::new(port)
PortContextNew(port) == [port |-> port, last_request_id |-> INITIAL_REQUEST_ID]

NoIds == [connect |-> {}, port |-> [h \in Handles |-> {}], app |-> {}]

BgLast(op, ret, posted) == [op |-> op, ret |-> ret, posted |-> posted]

\* start(): App::default() and no port.
ExtInit ==
    /\ bgApp = DefaultApp
    /\ bgPorts = [h \in Handles |-> None]
    /\ bgPending = << >>
    /\ bgStorage = [secret_key |-> None, salt |-> None]
    /\ bgIds = NoIds
    /\ bgLast = BgLast("start", None, None)

\* generate_salt: a random salt, so one that neither stored record was made
\* with.  Salts are only ever compared with one another.
GenerateSalt(f) ==
    LET held == (IF IsSome(f.hash) THEN {Unwrap(f.hash).salt} ELSE {})
                \cup (IF IsSome(f.sk) THEN {Unwrap(f.sk).wrap.salt} ELSE {})
    IN  LeastNotIn(held)

\* The nonces of the values stored anywhere: the store, the Apps, the files.
NoncesOf(c) == {c.username.nonce, c.password.nonce}
NoncesOfMap(m) == UNION {UNION {NoncesOf(m[s][i]) : i \in DOMAIN m[s]} : s \in DOMAIN m}
NoncesOfOption(o) == IF IsSome(o) THEN NoncesOfMap(Unwrap(o)) ELSE {}
NoncesHeld ==
    UNION ( {UNION {NoncesOf(Unwrap(users[pk])[i]) : i \in 1..Len(Unwrap(users[pk]))} :
                pk \in {k \in PublicKeys : IsSome(users[k])}}
            \cup {NoncesOfOption(files[d].data) : d \in Devices}
            \cup {IF IsSome(app[d]) THEN NoncesOfMap(Unwrap(app[d]).credentials) ELSE {} :
                     d \in Devices} )

\* ChaChaBox::generate_nonce(&mut OsRng): a random nonce, so one that no
\* stored value carries.  Nonces are only ever compared with one another.
GenerateNonce(held) == LeastNotIn(held)

NoFiles == [hash |-> None, sk |-> None, data |-> None]

\* remote: "" when no remote call was made, "done" when the store carried the
\* request out, "failed" when it did not (the request never arrived, the
\* database call failed, or the user is unknown).
Last(op, res, err, remote, fetched) ==
    [op |-> op, res |-> res, err |-> err, remote |-> remote, fetched |-> fetched]

Remote(called, done) ==
    IF ~called THEN "" ELSE IF done THEN "done" ELSE "failed"

Init ==
    /\ files = [d \in Devices |-> NoFiles]
    /\ app = [d \in Devices |-> None]
    /\ users = [pk \in PublicKeys |-> None]
    /\ seals = 0
    /\ seedsUsed = {}
    /\ last = Last("init", "Ok", "", "", FALSE)
    /\ added = EmptyMap
    /\ deleted = {}
    /\ ExtInit
    /\ SigInit

\* register wrapping the private key under a hash other than the one it stores.
RegisterWrappingUnderOtherHash(d, device_pass, seed, failAt, outcome) ==
    /\ app[d] = None
    /\ seed \in ValidSeeds \ seedsUsed
    /\ LET pass_hash == [pw |-> device_pass, salt |-> GenerateSalt(files[d])]
           other_hash == [pw |-> device_pass, salt |-> pass_hash.salt + 1]
           key_pair == Unwrap(KeyPairTryNew(seed))
           f1 == IF Passed(RegisterSteps, failAt, "write_hash")
                 THEN [files[d] EXCEPT !.hash = Some(pass_hash)] ELSE files[d]
           f2 == IF Passed(RegisterSteps, failAt, "write_sk")
                 THEN [f1 EXCEPT !.sk = Some([wrap |-> other_hash, key |-> key_pair.private_key])]
                 ELSE f1
           f3 == IF Passed(RegisterSteps, failAt, "write_data")
                 THEN [f2 EXCEPT !.data = Some(EmptyMap)] ELSE f2
           called == failAt = "none"
           r == ApiCreateUser(outcome, users, GetPk(key_pair))
       IN  /\ files' = [files EXCEPT ![d] = f3]
           /\ users' = IF called THEN r.users ELSE users
           /\ seedsUsed' = IF Passed(RegisterSteps, failAt, "hash")
                           THEN seedsUsed \cup {seed} ELSE seedsUsed
           /\ last' = Last("register", IF called /\ r.ok THEN "Ok" ELSE "Err",
                           IF ~called THEN failAt ELSE IF r.ok THEN "" ELSE "remote",
                           Remote(called, r.done), FALSE)
    /\ UNCHANGED <<app, seals, added, deleted, extVars, sigVars>>

\* register(device_pass): SeedPhrase::new draws a phrase never seen before.
Register(d, device_pass, seed, failAt, outcome) ==
    /\ app[d] = None
    /\ seed \in ValidSeeds \ seedsUsed
    /\ LET pass_hash == [pw |-> device_pass, salt |-> GenerateSalt(files[d])]
           key_pair == Unwrap(KeyPairTryNew(seed))
           f1 == IF Passed(RegisterSteps, failAt, "write_hash")
                 THEN [files[d] EXCEPT !.hash = Some(pass_hash)] ELSE files[d]
           f2 == IF Passed(RegisterSteps, failAt, "write_sk")
                 THEN [f1 EXCEPT !.sk = Some([wrap |-> pass_hash, key |-> key_pair.private_key])]
                 ELSE f1
           f3 == IF Passed(RegisterSteps, failAt, "write_data")
                 THEN [f2 EXCEPT !.data = Some(EmptyMap)] ELSE f2
           called == failAt = "none"
           r == ApiCreateUser(outcome, users, GetPk(key_pair))
       IN  /\ files' = [files EXCEPT ![d] = f3]
           /\ users' = IF called THEN r.users ELSE users
           /\ seedsUsed' = IF Passed(RegisterSteps, failAt, "hash")
                           THEN seedsUsed \cup {seed} ELSE seedsUsed
           /\ last' = Last("register", IF called /\ r.ok THEN "Ok" ELSE "Err",
                           IF ~called THEN failAt ELSE IF r.ok THEN "" ELSE "remote",
                           Remote(called, r.done), FALSE)
    /\ UNCHANGED <<app, seals, added, deleted, extVars, sigVars>>

\* auth_device(seed_phrase, device_pass).  KeyPair::new panics on a phrase
\* that is no mnemonic, before anything is written.
AuthDevice(d, seed_phrase, device_pass, failAt, outcome, writeOk) ==
    /\ app[d] = None
    /\ (failAt = "derive") = (seed_phrase \in InvalidSeeds)
    /\ LET pass_hash == [pw |-> device_pass, salt |-> GenerateSalt(files[d])]
           key_pair == Unwrap(KeyPairTryNew(seed_phrase))
           f1 == IF Passed(AuthSteps, failAt, "write_hash")
                 THEN [files[d] EXCEPT !.hash = Some(pass_hash)] ELSE files[d]
           f2 == IF Passed(AuthSteps, failAt, "write_sk")
                 THEN [f1 EXCEPT !.sk = Some([wrap |-> pass_hash, key |-> key_pair.private_key])]
                 ELSE f1
           called == failAt = "none"
           s == SyncWithApi(outcome, writeOk, users, key_pair, f2.data)
           f3 == IF called THEN [f2 EXCEPT !.data = s.data] ELSE f2
       IN  /\ files' = [files EXCEPT ![d] = f3]
           /\ last' = Last("auth_device",
                           IF failAt = "derive" THEN "Panic"
                           ELSE IF called /\ s.ok THEN "Ok" ELSE "Err",
                           IF ~called THEN failAt ELSE IF s.ok THEN "" ELSE "sync",
                           Remote(called, called /\ s.fetched), called /\ s.fetched)
    /\ UNCHANGED <<app, users, seals, seedsUsed, added, deleted, extVars, sigVars>>

\* verify_password(device_pass, cipher, nonce) against the stored hash.
VerifyPassword(device_pass, pass_hash) == pass_hash.pw = device_pass

\* read_sk(&pass_hash.cipher): the blob opens under the hash it was wrapped with.
ReadSk(f) ==
    IF IsSome(f.sk) /\ Unwrap(f.sk).wrap = Unwrap(f.hash)
    THEN Some(Unwrap(f.sk).key)
    ELSE None

\* App::new starting from an empty cache when the sync failed.
AppNewDiscardingCache(device_pass, outcome, writeOk, usrs, f) ==
    LET fail(e) == [ok |-> FALSE, err |-> e, fetched |-> FALSE, app |-> None, data |-> f.data]
    IN  IF ~IsSome(f.hash) THEN fail("read_password_hash")
        ELSE IF ~VerifyPassword(device_pass, Unwrap(f.hash)) THEN fail("verify_password")
        ELSE IF ~IsSome(ReadSk(f)) THEN fail("read_sk")
        ELSE LET key_pair == KeyPairFromSk(Unwrap(ReadSk(f)))
                 s == SyncWithApi(outcome, writeOk, usrs, key_pair, f.data)
             IN  [ok |-> TRUE, err |-> "", fetched |-> s.fetched,
                  app |-> Some([key_pair |-> key_pair, credentials |-> s.credentials]),
                  data |-> s.data]

\* App::new without the call of verify_password.
AppNewUnverified(device_pass, outcome, writeOk, usrs, f) ==
    LET fail(e) == [ok |-> FALSE, err |-> e, fetched |-> FALSE, app |-> None, data |-> f.data]
    IN  IF ~IsSome(f.hash) THEN fail("read_password_hash")
        ELSE IF ~IsSome(ReadSk(f)) THEN fail("read_sk")
        ELSE LET key_pair == KeyPairFromSk(Unwrap(ReadSk(f)))
                 s == SyncWithApi(outcome, writeOk, usrs, key_pair, f.data)
             IN  IF s.ok
                 THEN [ok |-> TRUE, err |-> "", fetched |-> TRUE,
                       app |-> Some([key_pair |-> key_pair, credentials |-> s.credentials]),
                       data |-> s.data]
                 ELSE IF IsSome(s.data)
                 THEN [ok |-> TRUE, err |-> "", fetched |-> s.fetched,
                       app |-> Some([key_pair |-> key_pair, credentials |-> Unwrap(s.data)]),
                       data |-> s.data]
                 ELSE [fail("read_app_data") EXCEPT !.fetched = s.fetched]

\* App::new(device_pass): [ok, err, fetched, app, data].
AppNew(device_pass, outcome, writeOk, usrs, f) ==
    LET fail(e) == [ok |-> FALSE, err |-> e, fetched |-> FALSE, app |-> None, data |-> f.data]
    IN  IF ~IsSome(f.hash) THEN fail("read_password_hash")
        ELSE IF ~VerifyPassword(device_pass, Unwrap(f.hash)) THEN fail("verify_password")
        ELSE IF ~IsSome(ReadSk(f)) THEN fail("read_sk")
        ELSE LET key_pair == KeyPairFromSk(Unwrap(ReadSk(f)))
                 s == SyncWithApi(outcome, writeOk, usrs, key_pair, f.data)
             IN  IF s.ok
                 THEN [ok |-> TRUE, err |-> "", fetched |-> TRUE,
                       app |-> Some([key_pair |-> key_pair, credentials |-> s.credentials]),
                       data |-> s.data]
                 \* or_else(|_| read_app_data()): any failure of the sync
                 ELSE IF IsSome(s.data)
                 THEN [ok |-> TRUE, err |-> "", fetched |-> s.fetched,
                       app |-> Some([key_pair |-> key_pair, credentials |-> Unwrap(s.data)]),
                       data |-> s.data]
                 ELSE [fail("read_app_data") EXCEPT !.fetched = s.fetched]

Unlock(d, device_pass, outcome, writeOk) ==
    /\ app[d] = None
    /\ LET r == AppNew(device_pass, outcome, writeOk, users, files[d])
           called == r.err \notin {"read_password_hash", "verify_password", "read_sk"}
       IN  /\ app' = [app EXCEPT ![d] = r.app]
           /\ files' = [files EXCEPT ![d].data = r.data]
           /\ last' = Last("unlock", IF r.ok THEN "Ok" ELSE "Err", r.err,
                           Remote(called, r.fetched), r.fetched)
    /\ UNCHANGED <<users, seals, seedsUsed, added, deleted, extVars, sigVars>>

\* The process of the command ends; the App is dropped.
Exit(d) ==
    /\ IsSome(app[d])
    /\ app' = [app EXCEPT ![d] = None]
    /\ last' = Last("exit", "Ok", "", "", FALSE)
    /\ UNCHANGED <<files, users, seals, seedsUsed, added, deleted, extVars, sigVars>>

(***************************************************************************)
(* add, edit and delete.  Each answers [res, err, called, done, app, users, *)
(* data]: what the caller gets, whether the remote call was made, the App, *)
(* the store and the cache file after the call.                            *)
(* write_app_data(..).expect(..) panics when the write fails: the process  *)
(* ends and the file keeps what it held.                                   *)
(***************************************************************************)
Answer(res, err, called, a, r, data) ==
    [res |-> res, err |-> err, called |-> called, done |-> called /\ r.done, app |-> a,
     users |-> r.users, data |-> data]

\* No remote call: the store is as it was.
Untouched(usrs) == [ok |-> FALSE, done |-> FALSE, users |-> usrs, passwords |-> << >>]

\* App::add
AppAdd(a, site, username, password, n1, n2, outcome, writeOk, usrs, data) ==
    IF ~VerifyCredentialsDontExist(a, site, username)
    THEN Answer("Err", "Credentials already exist", FALSE, Some(a), Untouched(usrs), data)
    ELSE LET user_id == GetPk(a.key_pair)
             password_id == CredentialId(a.key_pair, site, username)
             enc == PasswordEncrypt(a.key_pair,
                        [id |-> password_id, user_id |-> user_id, site |-> site,
                         username |-> username, password |-> password], n1, n2)
             r == ApiAddPassword(outcome, usrs, user_id, enc)
             credentials == Put(a.credentials, site,
                                Put(Bucket(a.credentials, site), password_id, enc))
         IN  IF ~r.ok
             THEN Answer("Err", "remote", TRUE, Some(a), r, data)
             ELSE IF ~writeOk
             THEN Answer("Panic", "write_app_data", TRUE, None, r, data)
             ELSE Answer("Ok", "", TRUE, Some([a EXCEPT !.credentials = credentials]),
                         r, Some(credentials))

\* App::edit setting the password of every credential of the site.
AppEditWholeBucket(a, site, username, password, n1, outcome, writeOk, usrs, data) ==
    IF ~VerifyCredentialsExist(a, site, username)
    THEN Answer("Err", "Credentials not found", FALSE, Some(a), Untouched(usrs), data)
    ELSE LET user_id == GetPk(a.key_pair)
             password_id == CredentialId(a.key_pair, site, username)
             password_enc == Encrypt(a.key_pair, password, n1)
             r == ApiEditPassword(outcome, usrs, user_id, password_id, password_enc)
             bucket == Bucket(a.credentials, site)
             modified == [i \in DOMAIN bucket |-> [bucket[i] EXCEPT !.password = password_enc]]
             credentials == Put(a.credentials, site, modified)
         IN  IF ~r.ok
             THEN Answer("Err", "remote", TRUE, Some(a), r, data)
             ELSE IF ~writeOk
             THEN Answer("Panic", "write_app_data", TRUE, None, r, data)
             ELSE Answer("Ok", "", TRUE, Some([a EXCEPT !.credentials = credentials]),
                         r, Some(credentials))

\* App::edit
AppEdit(a, site, username, password, n1, outcome, writeOk, usrs, data) ==
    IF ~VerifyCredentialsExist(a, site, username)
    THEN Answer("Err", "Credentials not found", FALSE, Some(a), Untouched(usrs), data)
    ELSE LET user_id == GetPk(a.key_pair)
             password_id == CredentialId(a.key_pair, site, username)
             password_enc == Encrypt(a.key_pair, password, n1)
             r == ApiEditPassword(outcome, usrs, user_id, password_id, password_enc)
             bucket == Bucket(a.credentials, site)
             \* entry(password_id).and_modify(..): nothing happens without the entry
             modified == IF password_id \in DOMAIN bucket
                         THEN [bucket EXCEPT ![password_id].password = password_enc]
                         ELSE bucket
             credentials == Put(a.credentials, site, modified)
         IN  IF ~r.ok
             THEN Answer("Err", "remote", TRUE, Some(a), r, data)
             ELSE IF ~writeOk
             THEN Answer("Panic", "write_app_data", TRUE, None, r, data)
             ELSE Answer("Ok", "", TRUE, Some([a EXCEPT !.credentials = credentials]),
                         r, Some(credentials))

\* App::delete dropping the result of the remote call.
AppDeleteUnconfirmed(a, site, username, outcome, writeOk, usrs, data) ==
    IF ~VerifyCredentialsExist(a, site, username)
    THEN Answer("Err", "Credentials not found", FALSE, Some(a), Untouched(usrs), data)
    ELSE LET user_id == GetPk(a.key_pair)
             password_id == CredentialId(a.key_pair, site, username)
             r == ApiDeletePassword(outcome, usrs, user_id, password_id)
             credentials == Put(a.credentials, site,
                                Remove(Bucket(a.credentials, site), password_id))
         IN  IF ~writeOk
             THEN Answer("Panic", "write_app_data", TRUE, None, r, data)
             ELSE Answer("Ok", "", TRUE, Some([a EXCEPT !.credentials = credentials]),
                         r, Some(credentials))

\* App::delete leaving the cache as it was.
AppDeleteKeepingEntry(a, site, username, outcome, writeOk, usrs, data) ==
    IF ~VerifyCredentialsExist(a, site, username)
    THEN Answer("Err", "Credentials not found", FALSE, Some(a), Untouched(usrs), data)
    ELSE LET user_id == GetPk(a.key_pair)
             password_id == CredentialId(a.key_pair, site, username)
             r == ApiDeletePassword(outcome, usrs, user_id, password_id)
         IN  IF ~r.ok
             THEN Answer("Err", "remote", TRUE, Some(a), r, data)
             ELSE Answer("Ok", "", TRUE, Some(a), r, data)

\* App::delete
AppDelete(a, site, username, outcome, writeOk, usrs, data) ==
    IF ~VerifyCredentialsExist(a, site, username)
    THEN Answer("Err", "Credentials not found", FALSE, Some(a), Untouched(usrs), data)
    ELSE LET user_id == GetPk(a.key_pair)
             password_id == CredentialId(a.key_pair, site, username)
             r == ApiDeletePassword(outcome, usrs, user_id, password_id)
             credentials == Put(a.credentials, site,
                                Remove(Bucket(a.credentials, site), password_id))
         IN  IF ~r.ok
             THEN Answer("Err", "remote", TRUE, Some(a), r, data)
             ELSE IF ~writeOk
             THEN Answer("Panic", "write_app_data", TRUE, None, r, data)
             ELSE Answer("Ok", "", TRUE, Some([a EXCEPT !.credentials = credentials]),
                         r, Some(credentials))

Key(a, site, username) == <<GetPk(a.key_pair), site, username>>

\* The state after a call that answered r.
Apply(d, op, outcome, r) ==
    /\ seals' = IF r.called /\ op # "delete" THEN seals + 1 ELSE seals
    /\ app' = [app EXCEPT ![d] = r.app]
    /\ users' = r.users
    /\ files' = [files EXCEPT ![d].data = r.data]
    /\ last' = Last(op, r.res, r.err, Remote(r.called, r.done), FALSE)
    /\ UNCHANGED <<seedsUsed, extVars, sigVars>>

Add(d, site, username, password, outcome, writeOk) ==
    /\ IsSome(app[d])
    /\ LET a == Unwrap(app[d])
           n1 == GenerateNonce(NoncesHeld)
           n2 == GenerateNonce(NoncesHeld \cup {n1})
           r == AppAdd(a, site, username, password, n1, n2, outcome, writeOk,
                       users, files[d].data)
       IN  /\ r.called => seals < MaxSeals
           /\ Apply(d, "add", outcome, r)
           /\ added' = IF r.res = "Ok"
                       THEN Put(added, Key(a, site, username), [dev |-> d, password |-> password])
                       ELSE added
           /\ deleted' = IF r.res # "Err" THEN deleted \ {Key(a, site, username)} ELSE deleted

Edit(d, site, username, password, outcome, writeOk) ==
    /\ IsSome(app[d])
    /\ LET a == Unwrap(app[d])
           r == AppEdit(a, site, username, password, GenerateNonce(NoncesHeld),
                        outcome, writeOk, users, files[d].data)
       IN  /\ r.called => seals < MaxSeals
           /\ Apply(d, "edit", outcome, r)
           /\ added' = IF r.res # "Err" THEN Remove(added, Key(a, site, username)) ELSE added
           /\ UNCHANGED deleted

Delete(d, site, username, outcome, writeOk) ==
    /\ IsSome(app[d])
    /\ LET a == Unwrap(app[d])
           r == AppDelete(a, site, username, outcome, writeOk, users, files[d].data)
       IN  /\ Apply(d, "delete", outcome, r)
           /\ added' = IF r.res # "Err" THEN Remove(added, Key(a, site, username)) ELSE added
           /\ deleted' = IF r.res = "Ok" THEN deleted \cup {Key(a, site, username)} ELSE deleted

(***************************************************************************)
(* The commands.                                                           *)
(***************************************************************************)
Bools == {TRUE, FALSE}

\* The commands of device d, with the seed phrase of register drawn from
\* seeds and its device password from setup.
Commands(d, seeds, setup) ==
    \/ \E pw \in setup, s \in seeds \cap ValidSeeds, f \in FailPoints(RegisterSteps),
          o \in Outcomes : Register(d, pw, s, f, o)
    \/ \E pw \in DevicePasswords, o \in Outcomes, w \in Bools : Unlock(d, pw, o, w)
    \/ Exit(d)
    \/ \E pr \in Pairs, p \in AddedPlaintexts, o \in Outcomes, w \in Bools :
          Add(d, pr[1], pr[2], p, o, w)
    \/ \E pr \in Pairs, p \in EditedPlaintexts, o \in Outcomes, w \in Bools :
          Edit(d, pr[1], pr[2], p, o, w)
    \/ \E pr \in Pairs, o \in Outcomes, w \in Bools : Delete(d, pr[1], pr[2], o, w)

\* auth_device on device d.
AuthCommands(d, seeds, setup) ==
    \E s \in seeds, pw \in setup, f \in FailPoints(AuthSteps), o \in Outcomes, w \in Bools :
        AuthDevice(d, s, pw, f, o, w)

\* Device d1 registers with "hunter2" and runs register, unlock, add, edit and
\* delete in any order, one command after the other.
Next == Commands("d1", {"seed1"}, {"hunter2"})

Spec == Init /\ [][Next]_vars

\* A second device.  d1 registers, unlocks, adds and deletes one credential;
\* d2 is authenticated with the seed phrase d1's register returned, or with a
\* phrase that is no mnemonic, and is unlocked and left.
NextAuth ==
    \/ \E f \in FailPoints(RegisterSteps), o \in Outcomes :
          Register("d1", "hunter2", "seed1", f, o)
    \/ \E o \in Outcomes, w \in Bools : Unlock("d1", "hunter2", o, w)
    \/ Exit("d1")
    \/ \E p \in AddedPlaintexts, o \in Outcomes, w \in Bools : Add("d1", "a", "c", p, o, w)
    \/ \E o \in Outcomes, w \in Bools : Delete("d1", "a", "c", o, w)
    \/ AuthCommands("d2", {"seed1", "notamnemonic"}, {"hunter2"})
    \/ \E o \in Outcomes, w \in Bools : Unlock("d2", "hunter2", o, w)
    \/ Exit("d2")

SpecAuth == Init /\ [][NextAuth]_vars

(***************************************************************************)
(* An unlocked vault holding two credentials: the state register, App::new *)
(* and two calls of add leave when every step succeeds.  From there the    *)
(* vault is edited, deleted from, left and unlocked again; seals counts    *)
(* the calls from there on.                                                *)
(***************************************************************************)
FilledKeyPair == Unwrap(KeyPairTryNew("seed1"))
FilledHash == [pw |-> "hunter2", salt |-> GenerateSalt(NoFiles)]
FilledFirst ==
    AppAdd([key_pair |-> FilledKeyPair, credentials |-> EmptyMap], "a", "bc", "x",
           GenerateNonce({}), GenerateNonce({GenerateNonce({})}), "ok", TRUE,
           ServiceCreateUser([pk \in PublicKeys |-> None], GetPk(FilledKeyPair)).users,
           Some(EmptyMap))
FilledSecond ==
    LET held == NoncesOfOption(FilledFirst.data) IN
    AppAdd(Unwrap(FilledFirst.app), "a", "c", "x",
           GenerateNonce(held), GenerateNonce(held \cup {GenerateNonce(held)}), "ok", TRUE,
           FilledFirst.users, FilledFirst.data)

InitFilled ==
    /\ files = [d \in Devices |->
                  IF d = "d1"
                  THEN [hash |-> Some(FilledHash),
                        sk |-> Some([wrap |-> FilledHash, key |-> FilledKeyPair.private_key]),
                        data |-> FilledSecond.data]
                  ELSE NoFiles]
    /\ app = [d \in Devices |-> IF d = "d1" THEN FilledSecond.app ELSE None]
    /\ users = FilledSecond.users
    /\ seals = 0
    /\ seedsUsed = {"seed1"}
    /\ last = Last("add", "Ok", "", "done", FALSE)
    /\ added = Put(Put(EmptyMap, <<GetPk(FilledKeyPair), "a", "bc">>, [dev |-> "d1", password |-> "x"]),
                   <<GetPk(FilledKeyPair), "a", "c">>, [dev |-> "d1", password |-> "x"])
    /\ deleted = {}
    /\ ExtInit
    /\ SigInit

NextFilled ==
    \/ \E pw \in DevicePasswords, o \in Outcomes, w \in Bools : Unlock("d1", pw, o, w)
    \/ Exit("d1")
    \/ \E pr \in Pairs, p \in EditedPlaintexts, o \in Outcomes, w \in Bools :
          Edit("d1", pr[1], pr[2], p, o, w)
    \/ \E pr \in Pairs, o \in Outcomes, w \in Bools : Delete("d1", pr[1], pr[2], o, w)

SpecFilled == InitFilled /\ [][NextFilled]_vars

\* One device that changes its identity.  d1 registers, unlocks and adds a
\* credential, and is later authenticated with the seed phrase of another
\* identity.
NextSwitch ==
    \/ \E f \in FailPoints(RegisterSteps), o \in Outcomes :
          Register("d1", "hunter2", "seed1", f, o)
    \/ \E o \in Outcomes, w \in Bools : Unlock("d1", "hunter2", o, w)
    \/ Exit("d1")
    \/ \E p \in AddedPlaintexts, o \in Outcomes, w \in Bools : Add("d1", "a", "c", p, o, w)
    \/ AuthCommands("d1", {"seed2"}, {"hunter2"})

SpecSwitch == Init /\ [][NextSwitch]_vars

\* Two devices of one identity that both add.  d1 registers, d2 is
\* authenticated with the seed phrase register returned, and each unlocks
\* and adds the credential of one and the same (site, username) pair.
NextTwo ==
    \/ \E f \in FailPoints(RegisterSteps), o \in Outcomes :
          Register("d1", "hunter2", "seed1", f, o)
    \/ AuthCommands("d2", {"seed1"}, {"hunter2"})
    \/ \E d \in Devices, o \in Outcomes, w \in Bools : Unlock(d, "hunter2", o, w)
    \/ \E d \in Devices, p \in AddedPlaintexts, o \in Outcomes, w \in Bools :
          Add(d, "a", "c", p, o, w)

SpecTwo == Init /\ [][NextTwo]_vars

(***************************************************************************)
(* The background script: the port router and the one-shot requests.       *)
(***************************************************************************)
MaxRequestId == 2
MaxPending == 1

\* ConnectedPorts::connect: [ret, ports].  last_id is written nowhere, so
\* checked_add never overflows.
Connect(ports, port) ==
    LET id == ports.last_id + 1 IN
    [ret |-> Some(id),
     ports |-> [ports EXCEPT !.ctx_by_id = Put(@, id, PortContextNew(port))]]

\* ConnectedPorts::disconnect handing the port back without removing it.
DisconnectKeeping(ports, id) ==
    [ret |-> IF id \in DOMAIN ports.ctx_by_id THEN Some(ports.ctx_by_id[id].port) ELSE None,
     ports |-> ports]

\* ConnectedPorts::disconnect: [ret, ports].
Disconnect(ports, id) ==
    [ret |-> IF id \in DOMAIN ports.ctx_by_id THEN Some(ports.ctx_by_id[id].port) ELSE None,
     ports |-> [ports EXCEPT !.ctx_by_id = Remove(@, id)]]

\* ConnectedPorts::post_message_js: the port the message is posted on, or
\* None for NotConnected.
PostMessageJs(ports, id) ==
    IF id \in DOMAIN ports.ctx_by_id THEN Some(ports.ctx_by_id[id].port) ELSE None

\* ConnectedPorts::next_request_id registering a context for an id it does
\* not know instead of answering NotConnected.
PortsNextRequestIdCreating(ports, id) ==
    LET last_request_id == IF id \in DOMAIN ports.ctx_by_id
                           THEN ports.ctx_by_id[id].last_request_id
                           ELSE INITIAL_REQUEST_ID
        port == IF id \in DOMAIN ports.ctx_by_id THEN ports.ctx_by_id[id].port ELSE "p1"
        next == NextRequestId(last_request_id)
    IN  [ret |-> Some(next),
         ports |-> [ports EXCEPT !.ctx_by_id =
                        Put(@, id, [port |-> port, last_request_id |-> next])]]

\* ConnectedPorts::next_request_id: [ret, ports], ret None for NotConnected.
PortsNextRequestId(ports, id) ==
    IF id \in DOMAIN ports.ctx_by_id
    THEN LET next == NextRequestId(ports.ctx_by_id[id].last_request_id) IN
         [ret |-> Some(next),
          ports |-> [ports EXCEPT !.ctx_by_id[id].last_request_id = next]]
    ELSE [ret |-> None, ports |-> ports]

\* App::next_request_id: [ret, app].
AppNextRequestId(a) ==
    LET next == NextRequestId(a.last_request_id) IN
    [ret |-> next, app |-> [a EXCEPT !.last_request_id = next]]

\* on_connect_port: the listeners of the port capture the id connect returned.
OnConnectPort(h) ==
    /\ bgPorts[h] = None
    /\ LET r == Connect(bgApp.connected_ports, h) IN
       /\ bgApp' = [bgApp EXCEPT !.connected_ports = r.ports]
       /\ bgPorts' = [bgPorts EXCEPT ![h] = r.ret]
       /\ bgIds' = [bgIds EXCEPT !.connect = @ \cup {Unwrap(r.ret)}, !.port[h] = {}]
       /\ bgLast' = BgLast("connect", r.ret, None)
    /\ UNCHANGED <<bgPending, bgStorage, cliVars, sigVars>>

\* The on_disconnect listener of port h.
OnPortDisconnect(h) ==
    /\ IsSome(bgPorts[h])
    /\ LET r == Disconnect(bgApp.connected_ports, Unwrap(bgPorts[h])) IN
       /\ bgApp' = [bgApp EXCEPT !.connected_ports = r.ports]
       /\ bgLast' = BgLast("disconnect", r.ret, None)
    /\ bgPorts' = [bgPorts EXCEPT ![h] = None]
    /\ bgIds' = [bgIds EXCEPT !.port[h] = {}]
    /\ UNCHANGED <<bgPending, bgStorage, cliVars, sigVars>>

\* on_port_message for a message of port h (a GetCredential request).
OnPortMessage(h) ==
    /\ IsSome(bgPorts[h])
    /\ LET port_id == Unwrap(bgPorts[h])
           n == PortsNextRequestId(bgApp.connected_ports, port_id)
       IN  IF ~IsSome(n.ret)
           THEN /\ bgLast' = BgLast("port_message", None, None)
                /\ UNCHANGED <<bgApp, bgIds>>
           ELSE /\ Unwrap(n.ret) <= MaxRequestId
                /\ bgApp' = [bgApp EXCEPT !.connected_ports = n.ports]
                /\ bgIds' = [bgIds EXCEPT !.port[h] = @ \cup {Unwrap(n.ret)}]
                /\ bgLast' = BgLast("port_message", n.ret, PostMessageJs(n.ports, port_id))
    /\ UNCHANGED <<bgPorts, bgPending, bgStorage, cliVars, sigVars>>

\* The one-shot requests: AppRequestPayload.
Req(kind, seed_phrase, device_password) ==
    [kind |-> kind, seed_phrase |-> seed_phrase, device_password |-> device_password]

AppRequests ==
    {Req(k, "", "") : k \in {"GetOptionsInfo", "GetStatus", "GetCredential", "AddCredential"}}
    \cup {Req("Unlock", "", pw) : pw \in DevicePasswords}
    \cup {Req("Login", s, "hunter2") : s \in {"seed1", "notamnemonic"}}

\* App::get_status on the stored key: [res, app, storage, status].
BgGetStatus(a, loadOk, storage) ==
    [res |-> IF loadOk THEN "Ok" ELSE "Err", app |-> a, storage |-> storage,
     status |-> IsSome(storage.secret_key)]

\* App::unlock(device_password): [res, app, storage].
BgUnlock(a, device_password, loadOk, storage) ==
    IF ~loadOk \/ ~IsSome(storage.salt) \/ ~IsSome(storage.secret_key)
    THEN [res |-> "Err", app |-> a, storage |-> storage]
    ELSE LET pass_hash == [pw |-> device_password, salt |-> Unwrap(storage.salt)]
             sk == Unwrap(storage.secret_key)
         IN  \* decrypt_data(&pass_hash.cipher, sk)
             IF sk.wrap # pass_hash
             THEN [res |-> "Err", app |-> a, storage |-> storage]
             ELSE [res |-> "Ok", app |-> [a EXCEPT !.key_pair = Some(KeyPairFromSk(sk.key))],
                   storage |-> storage]

\* App::login(seed_phrase, device_password): [res, app, storage].
BgLogin(a, seed_phrase, device_password, saveOk, storage) ==
    IF ~IsSome(KeyPairTryNew(seed_phrase))
    THEN [res |-> "Panic", app |-> a, storage |-> storage]
    ELSE LET salt == LeastNotIn(IF IsSome(storage.salt) THEN {Unwrap(storage.salt)} ELSE {})
             pass_hash == [pw |-> device_password, salt |-> salt]
             key_pair == Unwrap(KeyPairTryNew(seed_phrase))
         IN  IF ~saveOk
             THEN [res |-> "Err", app |-> a, storage |-> storage]
             ELSE [res |-> "Ok", app |-> [a EXCEPT !.key_pair = Some(key_pair)],
                   storage |-> [secret_key |-> Some([wrap |-> pass_hash,
                                                      key |-> key_pair.private_key]),
                                salt |-> Some(salt)]]

\* on_message: the request gets its id at once, its future runs later.
OnMessage(request) ==
    /\ Len(bgPending) < MaxPending
    /\ LET n == AppNextRequestId(bgApp) IN
       /\ n.ret <= MaxRequestId
       /\ bgApp' = n.app
       /\ bgPending' = Append(bgPending, [request_id |-> n.ret, request |-> request])
       /\ bgIds' = [bgIds EXCEPT !.app = @ \cup {n.ret}]
       /\ bgLast' = BgLast("message", Some(n.ret), None)
    /\ UNCHANGED <<bgPorts, bgStorage, cliVars, sigVars>>

\* handle_app_request: the future of the oldest pending request runs.
\* GetStatus, Unlock and Login work on app.take(), which leaves App::default()
\* behind; the App taken is dropped when the future ends.
HandleAppRequest(storageOk) ==
    /\ bgPending # << >>
    /\ LET request_id == Head(bgPending).request_id
           request == Head(bgPending).request
           taken == request.kind \in {"GetStatus", "Unlock", "Login"}
           r == IF request.kind = "GetStatus" THEN BgGetStatus(bgApp, storageOk, bgStorage)
                ELSE IF request.kind = "Unlock"
                THEN BgUnlock(bgApp, request.device_password, storageOk, bgStorage)
                ELSE IF request.kind = "Login"
                THEN BgLogin(bgApp, request.seed_phrase, request.device_password,
                             storageOk, bgStorage)
                ELSE [res |-> "Ok", app |-> bgApp, storage |-> bgStorage]
           \* no response: get_status failed, or login panicked
           silent == \/ request.kind = "GetStatus" /\ r.res = "Err"
                     \/ r.res = "Panic"
       IN  /\ bgApp' = IF taken THEN DefaultApp ELSE bgApp
           /\ bgStorage' = r.storage
           /\ bgLast' = BgLast(request.kind,
                               IF silent THEN None
                               ELSE Some([request_id |-> request_id, res |-> r.res]),
                               None)
    /\ bgPending' = Tail(bgPending)
    /\ UNCHANGED <<bgPorts, bgIds, cliVars, sigVars>>

\* The events of the background script.
NextExt ==
    \/ \E h \in Handles : OnConnectPort(h)
    \/ \E h \in Handles : OnPortDisconnect(h)
    \/ \E h \in Handles : OnPortMessage(h)
    \/ \E request \in AppRequests : OnMessage(request)
    \/ \E storageOk \in Bools : HandleAppRequest(storageOk)

SpecExt == Init /\ [][NextExt]_vars

(***************************************************************************)
(* sign and verify: tokens are made by the holders of the key pairs and by *)
(* a party that has a public key and the zero key, and are then verified.  *)
(***************************************************************************)
MaxTokens == 2

Messages == {"m1", "m2"}

\* ChaChaBox::generate_nonce: a nonce no token made so far carries.
SignNonce == LeastNotIn({t.value.nonce : t \in issued})

Token(value, how, sealed_with) == [value |-> value, how |-> how, sealed_with |-> sealed_with]

\* The holder of the seed signs a message.
SignToken(seed, message) ==
    /\ Cardinality(issued) < MaxTokens
    /\ LET kp == Unwrap(KeyPairTryNew(seed)) IN
       issued' = issued \cup {Token(Sign(kp, message, SignNonce), "sign", kp.private_key)}
    /\ UNCHANGED <<verified, cliVars, extVars>>

\* A party that has the public key and the zero key, both public, seals a
\* message with the box verify opens with.
SealWithZeroKey(public_key, message) ==
    /\ Cardinality(issued) < MaxTokens
    /\ issued' = issued \cup
          {Token(BoxEncrypt(ChaChaBox(public_key, ZeroSk), message, SignNonce),
                 "seal", ZeroSk)}
    /\ UNCHANGED <<verified, cliVars, extVars>>

\* verify(public_key, value) of a token made earlier.
VerifyToken(public_key) ==
    /\ \E t \in issued :
          verified' = Some([public_key |-> public_key, token |-> t,
                            res |-> Verify(public_key, t.value)])
    /\ UNCHANGED <<issued, cliVars, extVars>>

NextSign ==
    \/ \E seed \in ValidSeeds, message \in Messages : SignToken(seed, message)
    \/ \E public_key \in PublicKeys, message \in Messages : SealWithZeroKey(public_key, message)
    \/ \E public_key \in PublicKeys : VerifyToken(public_key)

SpecSign == Init /\ [][NextSign]_vars

(***************************************************************************)
(* What the claims speak of.                                               *)
(***************************************************************************)
\* The key pair a device's files hold.
StoredKeyPair(f) == KeyPairFromSk(Unwrap(f.sk).key)

\* The documents the store holds for a public key (none for an unknown user).
StoredDocs(pk) == IF IsSome(users[pk]) THEN Unwrap(users[pk]) ELSE << >>

\* Every credential of the cache is in the store under the same id.
CacheWithinRemote(credentials, pk) ==
    \A s \in DOMAIN credentials : \A i \in DOMAIN credentials[s] :
        \E k \in 1..Len(StoredDocs(pk)) : StoredDocs(pk)[k].id = i

\* The cache holds an entry with that id, under whichever site.
HoldsId(a, id) == \E s \in DOMAIN a.credentials : id \in DOMAIN a.credentials[s]

\* The cache holds some credential.
NonEmptyCache(credentials) == \E s \in DOMAIN credentials : credentials[s] # EmptyMap

\* The cache is the fetched set: every entry is a fetched document under its
\* site and id, and every fetched document has its entry.
IsRemoteSet(credentials, pk) ==
    /\ \A s \in DOMAIN credentials : \A i \in DOMAIN credentials[s] :
          \E k \in 1..Len(StoredDocs(pk)) :
              /\ StoredDocs(pk)[k].site = s
              /\ StoredDocs(pk)[k].id = i
              /\ credentials[s][i] = PasswordFromDoc(pk, StoredDocs(pk)[k])
    /\ \A k \in 1..Len(StoredDocs(pk)) :
          /\ StoredDocs(pk)[k].site \in DOMAIN credentials
          /\ StoredDocs(pk)[k].id \in DOMAIN credentials[StoredDocs(pk)[k].site]

(***************************************************************************)
(* C1.  After any sequence of register, unlock, add, edit and delete of    *)
(* one device, with remote calls that may fail or be rejected, every       *)
(* credential of the vault's cache (in memory and persisted) is in the     *)
(* remote store under the same id.  The code breaks it: Api::add_password  *)
(* answers Ok to an error response, and add then caches the credential.    *)
(***************************************************************************)
C1_CacheNeverAheadOfRemote ==
    \A d \in Devices :
        /\ IsSome(app[d]) =>
              CacheWithinRemote(Unwrap(app[d]).credentials, GetPk(Unwrap(app[d]).key_pair))
        /\ IsSome(files[d].data) /\ IsSome(files[d].sk) =>
              CacheWithinRemote(Unwrap(files[d].data), GetPk(StoredKeyPair(files[d])))

(***************************************************************************)
(* C2.  If the remote store call of add fails, add returns the error and   *)
(* neither the cache in memory nor the cache file changes.  The code       *)
(* breaks it when the store answers with an error (see C1).                *)
(***************************************************************************)
C2_FailedAddChangesNothing ==
    [][(last'.op = "add" /\ last'.remote = "failed")
         => (last'.res = "Err" /\ app' = app /\ files' = files)]_vars

(***************************************************************************)
(* C3.  delete removes the entry from the cache only after the store has   *)
(* confirmed: a delete whose remote call did not go through returns an     *)
(* error and leaves the cache, in memory and persisted, as it was.         *)
(***************************************************************************)
C3_DeleteOnlyAfterRemote ==
    [][(last'.op = "delete" /\ last'.remote # "done")
         => (last'.res = "Err" /\ app' = app /\ files' = files)]_vars

C3_Witness ==
    /\ last.op = "delete" /\ last.remote = "failed" /\ last.res = "Err"
    /\ IsSome(app["d1"]) /\ NonEmptyCache(Unwrap(app["d1"]).credentials)
    /\ files["d1"].data = Some(Unwrap(app["d1"]).credentials)

(***************************************************************************)
(* C4.  add on a vault whose cache already holds an entry with the id of   *)
(* (site, username) fails with "Credentials already exist", makes no       *)
(* remote call and leaves the cache as it was.  The code breaks it for two *)
(* pairs with the same concatenation: the entry is looked up under the     *)
(* site given, the id is the same under both sites.                        *)
(***************************************************************************)
C4_AddOfHeldIdFails ==
    [][\A d \in Devices : \A pr \in Pairs : \A p \in AddedPlaintexts :
         \A o \in Outcomes : \A w \in Bools :
           (/\ Add(d, pr[1], pr[2], p, o, w)
            /\ HoldsId(Unwrap(app[d]), CredentialId(Unwrap(app[d]).key_pair, pr[1], pr[2])))
           => (/\ last'.res = "Err" /\ last'.err = "Credentials already exist"
               /\ last'.remote = ""
               /\ app' = app /\ files' = files /\ users' = users)]_vars

(***************************************************************************)
(* C5.  After add(site, username, p) returned Ok, and for as long as the   *)
(* credential is neither edited nor deleted, get(site, username) on the    *)
(* unlocked vault returns exactly one credential, with that username and   *)
(* the password p in plaintext.  The code breaks it: an add the store      *)
(* rejected returns Ok (see C1), and the next sync drops the credential.   *)
(***************************************************************************)
C5_AddThenGet ==
    \A key \in DOMAIN added :
        LET d == added[key].dev IN
        (IsSome(app[d]) /\ GetPk(Unwrap(app[d]).key_pair) = key[1]) =>
            LET g == AppGet(Unwrap(app[d]), key[2], Some(key[3])) IN
            /\ g.ok
            /\ Cardinality(g.out) = 1
            /\ \A c \in g.out : c.username = key[3] /\ c.password = added[key].password

(***************************************************************************)
(* C6.  After delete(site, username) returned Ok, get(site, username) on   *)
(* the unlocked vault fails until the pair is added again, whether or not  *)
(* other credentials remain under the site.                                *)
(***************************************************************************)
C6_DeleteThenGetFails ==
    \A key \in deleted : \A d \in Devices :
        (IsSome(app[d]) /\ GetPk(Unwrap(app[d]).key_pair) = key[1]) =>
            ~AppGet(Unwrap(app[d]), key[2], Some(key[3])).ok

C6_Witness ==
    /\ last.op = "delete" /\ last.res = "Ok"
    /\ \E key \in deleted :
          /\ IsSome(app["d1"])
          /\ GetPk(Unwrap(app["d1"]).key_pair) = key[1]
          /\ key[2] \in DOMAIN Unwrap(app["d1"]).credentials
          /\ Unwrap(app["d1"]).credentials[key[2]] # EmptyMap

(***************************************************************************)
(* C7.  When the fetch of an unlock's sync succeeded, the cache of the     *)
(* vault that unlock produced is exactly the fetched set, arranged site -> *)
(* id -> credential.  The code breaks it: when the fetched set cannot be   *)
(* written to the cache file, App::new falls back on the file's old        *)
(* content.                                                                *)
(***************************************************************************)
C7_FetchedSetIsTheCache ==
    \A d \in Devices :
        (last.op = "unlock" /\ last.fetched /\ IsSome(app[d])) =>
            IsRemoteSet(Unwrap(app[d]).credentials, GetPk(Unwrap(app[d]).key_pair))

(***************************************************************************)
(* C8.  An unlock whose fetch failed leaves the files as they were, and,   *)
(* the cache file being readable, succeeds with the cache file's content   *)
(* as the vault's cache.                                                   *)
(***************************************************************************)
C8_OfflineUnlockUsesSnapshot ==
    [][\A d \in Devices :
         (last'.op = "unlock" /\ last'.remote = "failed" /\ app[d] = None) =>
            /\ files' = files
            /\ IsSome(files[d].data) =>
                  /\ last'.res = "Ok"
                  /\ app'[d] = Some([key_pair |-> StoredKeyPair(files[d]),
                                     credentials |-> Unwrap(files[d].data)])]_vars

C8_Witness ==
    /\ last.op = "unlock" /\ last.remote = "failed" /\ last.res = "Ok"
    /\ IsSome(app["d1"]) /\ NonEmptyCache(Unwrap(app["d1"]).credentials)
    /\ files["d1"].data = Some(Unwrap(app["d1"]).credentials)

(***************************************************************************)
(* C9.  An unlock with a password other than the one the private key was   *)
(* wrapped under fails at verify_password, yields no App and leaves the    *)
(* stored hash, the wrapped key and the cache file as they were.           *)
(***************************************************************************)
C9_WrongPasswordFails ==
    [][\A d \in Devices : \A pw \in DevicePasswords : \A o \in Outcomes : \A w \in Bools :
         (/\ Unlock(d, pw, o, w)
          /\ IsSome(files[d].sk)
          /\ Unwrap(files[d].sk).wrap.pw # pw)
         => (/\ last'.res = "Err" /\ last'.err = "verify_password"
             /\ last'.remote = ""
             /\ app'[d] = None
             /\ files' = files)]_vars

C9_Witness ==
    /\ last.op = "unlock" /\ last.res = "Err" /\ last.err = "verify_password"
    /\ app["d1"] = None
    /\ IsSome(files["d1"].hash) /\ IsSome(files["d1"].sk)
    /\ IsSome(files["d1"].data) /\ NonEmptyCache(Unwrap(files["d1"].data))

(***************************************************************************)
(* C10.  register on a fresh device is all or nothing: either the hash,    *)
(* the wrapped key and the empty cache all exist and the user is           *)
(* registered in the store, or register fails and none of the files        *)
(* remains.  The code breaks it: nothing written is taken back when a      *)
(* later step fails.                                                       *)
(***************************************************************************)
(* C10.  register on a fresh device is all or nothing: when one of its     *)
(* steps fails (hashing, writing the hash, wrapping and writing the key,   *)
(* writing the empty cache, registering the public key with the store),    *)
(* none of the files it wrote remains.  The code breaks it: nothing        *)
(* written is taken back when a later step fails.                          *)
(***************************************************************************)
C10_RegisterAllOrNothing ==
    [][\A d \in Devices : \A pw \in DevicePasswords : \A s \in ValidSeeds :
         \A f \in FailPoints(RegisterSteps) : \A o \in Outcomes :
           (/\ Register(d, pw, s, f, o)
            /\ files[d] = NoFiles
            /\ (f # "none" \/ last'.remote = "failed"))
           => files'[d] = NoFiles]_vars

\* The files a register(p) that returned the seed phrase s leaves: the hash
\* of p, the private key of derive(s) wrapped under that hash, and a cache.
RegisteredFiles(f, p, s) ==
    /\ IsSome(f.hash) /\ Unwrap(f.hash).pw = p
    /\ IsSome(f.sk) /\ Unwrap(f.sk).wrap = Unwrap(f.hash)
    /\ Unwrap(f.sk).key = Unwrap(KeyPairTryNew(s)).private_key
    /\ IsSome(f.data)

(***************************************************************************)
(* C11.  After register(p) returned the seed phrase s, unlock(p) succeeds  *)
(* with the key pair derive(s), and unlock with any other password fails   *)
(* and yields no App: a successful register leaves the files of (p, s),    *)
(* no later command other than register takes them away, and on those      *)
(* files unlock does as said.                                              *)
(***************************************************************************)
C11_RegisterThenUnlock ==
    [][\A d \in Devices : \A p \in DevicePasswords : \A s \in ValidSeeds :
         /\ \A f \in FailPoints(RegisterSteps) : \A o \in Outcomes :
               (last'.op = "register" /\ last'.res = "Ok" /\ Register(d, p, s, f, o))
                  => RegisteredFiles(files'[d], p, s)
         /\ (RegisteredFiles(files[d], p, s) /\ last'.op # "register")
               => RegisteredFiles(files'[d], p, s)
         /\ \A pw \in DevicePasswords : \A o \in Outcomes : \A w \in Bools :
               (last'.op = "unlock" /\ RegisteredFiles(files[d], p, s) /\ Unlock(d, pw, o, w))
                  => IF pw = p
                     THEN /\ last'.res = "Ok"
                          /\ IsSome(app'[d])
                          /\ Unwrap(app'[d]).key_pair = Unwrap(KeyPairTryNew(s))
                     ELSE /\ last'.res = "Err"
                          /\ app'[d] = None]_vars

C11_Witness ==
    /\ last.op = "unlock" /\ last.res = "Ok"
    /\ RegisteredFiles(files["d1"], "hunter2", "seed1")
    /\ IsSome(app["d1"])
    /\ Unwrap(app["d1"]).key_pair = Unwrap(KeyPairTryNew("seed1"))

(***************************************************************************)
(* C12.  auth_device with a valid seed phrase succeeds even when the sync  *)
(* that follows fails, and then leaves an empty cache.  The code breaks    *)
(* it: auth_device returns the error of sync_with_api, and no cache file   *)
(* is written.                                                             *)
(***************************************************************************)
C12_SyncFailureNotFatal ==
    [][\A d \in Devices : \A s \in ValidSeeds : \A pw \in DevicePasswords :
         \A o \in Outcomes : \A w \in Bools :
           (/\ last'.op = "auth_device" /\ last'.err = "sync"
            /\ AuthDevice(d, s, pw, "none", o, w))
           => (/\ last'.res = "Ok"
               /\ files'[d].data = Some(EmptyMap))]_vars

(***************************************************************************)
(* C13.  auth_device with a phrase that is no valid mnemonic returns an    *)
(* error to its caller and writes no hash, no key and no cache.  The code  *)
(* writes nothing, but it returns no error: KeyPair::new panics.           *)
(***************************************************************************)
C13_InvalidPhraseIsAnError ==
    [][\A d \in Devices : \A s \in InvalidSeeds : \A pw \in DevicePasswords :
         \A f \in FailPoints(AuthSteps) : \A o \in Outcomes : \A w \in Bools :
           (last'.op = "auth_device" /\ AuthDevice(d, s, pw, f, o, w))
           => (/\ last'.res = "Err" /\ last'.err = "derive"
               /\ files' = files)]_vars

\* The App an unlock of device d without the network yields, None if it fails.
OfflineApp(d) ==
    IF IsSome(files[d].hash)
    THEN AppNew(Unwrap(files[d].hash).pw, "transport", TRUE, users, files[d]).app
    ELSE None

(***************************************************************************)
(* C14.  A credential one device added (and has not edited or deleted) is, *)
(* once a second device was authenticated with the same seed phrase and    *)
(* its sync succeeded, returned by get(site, username) on the second       *)
(* device with the same plaintext username and password.  The code breaks  *)
(* it for an add the store rejected, which returned Ok (see C1).           *)
(***************************************************************************)
C14_SameCredentialOnSecondDevice ==
    (last.op = "auth_device" /\ last.res = "Ok") =>
        \A d \in Devices : \A key \in DOMAIN added :
            (/\ added[key].dev # d
             /\ IsSome(files[d].sk)
             /\ GetPk(StoredKeyPair(files[d])) = key[1])
            => /\ IsSome(OfflineApp(d))
               /\ LET g == AppGet(Unwrap(OfflineApp(d)), key[2], Some(key[3])) IN
                  /\ g.ok
                  /\ Cardinality(g.out) = 1
                  /\ \A c \in g.out : c.username = key[3] /\ c.password = added[key].password

(***************************************************************************)
(* C15.  An edit that returned Ok changes only the password field of the   *)
(* one cached credential with the id of (site, username): its id, user_id, *)
(* site and username and every other cached credential are as before, no   *)
(* credential is added or removed, and the cache file holds that cache.    *)
(***************************************************************************)
C15_EditChangesOnlyThePassword ==
    [][\A d \in Devices : \A pr \in Pairs : \A p \in EditedPlaintexts :
         \A o \in Outcomes : \A w \in Bools :
           (last'.op = "edit" /\ last'.res = "Ok" /\ Edit(d, pr[1], pr[2], p, o, w)) =>
              LET before == Unwrap(app[d]).credentials
                  after == Unwrap(app'[d]).credentials
                  id == CredentialId(Unwrap(app[d]).key_pair, pr[1], pr[2])
              IN  /\ Unwrap(app'[d]).key_pair = Unwrap(app[d]).key_pair
                  /\ DOMAIN after = DOMAIN before
                  /\ \A s \in DOMAIN before :
                        /\ DOMAIN after[s] = DOMAIN before[s]
                        /\ \A i \in DOMAIN before[s] :
                              IF s = pr[1] /\ i = id
                              THEN /\ [after[s][i] EXCEPT !.password = before[s][i].password]
                                         = before[s][i]
                                   /\ Decrypt(Unwrap(app[d]).key_pair, after[s][i].password) = p
                              ELSE after[s][i] = before[s][i]
                  /\ files'[d].data = Some(after)]_vars

C15_Witness ==
    /\ last.op = "edit" /\ last.res = "Ok"
    /\ IsSome(app["d1"])
    /\ "a" \in DOMAIN Unwrap(app["d1"]).credentials
    /\ \E i, j \in DOMAIN Unwrap(app["d1"]).credentials["a"] :
          /\ i # j
          /\ Decrypt(Unwrap(app["d1"]).key_pair,
                     Unwrap(app["d1"]).credentials["a"][i].password) = "y"
          /\ Decrypt(Unwrap(app["d1"]).key_pair,
                     Unwrap(app["d1"]).credentials["a"][j].password) = "x"

(***************************************************************************)
(* C16.  edit of a credential that is cached but that the store does not   *)
(* hold fails, and the cached password is not overwritten.  The code       *)
(* breaks it: modify_password answers Ok whenever the user exists, whether *)
(* or not one of the user's passwords has the id, and edit then overwrites *)
(* the cached password.                                                    *)
(***************************************************************************)
C16_EditOfUnstoredCredentialFails ==
    [][\A d \in Devices : \A pr \in Pairs : \A p \in EditedPlaintexts : \A w \in Bools :
         (/\ last'.op = "edit"
          /\ Edit(d, pr[1], pr[2], p, "ok", w)
          /\ VerifyCredentialsExist(Unwrap(app[d]), pr[1], pr[2])
          /\ \A k \in 1..Len(StoredDocs(GetPk(Unwrap(app[d]).key_pair))) :
                StoredDocs(GetPk(Unwrap(app[d]).key_pair))[k].id
                   # CredentialId(Unwrap(app[d]).key_pair, pr[1], pr[2]))
         => (/\ last'.res = "Err"
             /\ app' = app
             /\ files' = files)]_vars

(***************************************************************************)
(* C17.  Every connect returns a port id that is at least FIRST_PORT_ID    *)
(* and differs from every id an earlier connect returned.  The code        *)
(* breaks it: connect never stores the id it hands out in last_id, so      *)
(* every connect returns 1.                                                *)
(***************************************************************************)
C17_ConnectIdsAreFresh ==
    [][(bgLast'.op = "connect" /\ IsSome(bgLast'.ret))
         => (/\ Unwrap(bgLast'.ret) >= FIRST_PORT_ID
             /\ Unwrap(bgLast'.ret) \notin bgIds.connect)]_vars

\* The counter of the context registered under the id port h captured.
ChannelCounter(a, h) ==
    a.connected_ports.ctx_by_id[Unwrap(bgPorts[h])].last_request_id

Registered(a, h) ==
    IsSome(bgPorts[h]) /\ Unwrap(bgPorts[h]) \in DOMAIN a.connected_ports.ctx_by_id

(***************************************************************************)
(* C18.  The request ids given to the messages of one port are strictly    *)
(* increasing and none is given twice while the port is connected, and a   *)
(* message on one port leaves the counter of every other port and the      *)
(* counter of the one-shot requests as they were.  The code breaks it:     *)
(* every port gets the id 1 (see C17), so a second connect replaces the    *)
(* context of the first port and the two share one counter.                *)
(***************************************************************************)
C18_PortRequestIdsIncrease ==
    [][\A h \in Handles :
         (bgLast'.op = "port_message" /\ IsSome(bgLast'.ret) /\ OnPortMessage(h)) =>
            /\ \A i \in bgIds.port[h] : Unwrap(bgLast'.ret) > i
            /\ bgApp'.last_request_id = bgApp.last_request_id
            /\ \A other \in Handles \ {h} :
                  Registered(bgApp, other)
                     => ChannelCounter(bgApp', other) = ChannelCounter(bgApp, other)]_vars

(***************************************************************************)
(* C19.  The ids given to one-shot requests increase: no two one-shot      *)
(* requests get the same id, whatever requests were handled in between.    *)
(* The code breaks it: the handlers of GetStatus, Unlock and Login work on *)
(* app.take(), which leaves App::default() and so the counter 0 behind.    *)
(***************************************************************************)
C19_AppRequestIdsIncrease ==
    [][(bgLast'.op = "message")
         => \A i \in bgIds.app : Unwrap(bgLast'.ret) > i]_vars

(***************************************************************************)
(* C20.  disconnect never fails: on a registered id it removes that        *)
(* context and nothing else, on an id that is not registered (a second     *)
(* call, an id never connected) it leaves the registry and every counter   *)
(* as they were.                                                           *)
(***************************************************************************)
C20_DisconnectIsIdempotent ==
    [][\A h \in Handles :
         (bgLast'.op = "disconnect" /\ OnPortDisconnect(h)) =>
            LET id == Unwrap(bgPorts[h])
                before == bgApp.connected_ports.ctx_by_id
                after == bgApp'.connected_ports.ctx_by_id
            IN  /\ DOMAIN after = DOMAIN before \ {id}
                /\ \A i \in DOMAIN after : after[i] = before[i]
                /\ bgApp'.connected_ports.last_id = bgApp.connected_ports.last_id
                /\ bgApp'.last_request_id = bgApp.last_request_id
                /\ bgApp'.key_pair = bgApp.key_pair
                /\ bgLast'.ret = IF id \in DOMAIN before THEN Some(before[id].port) ELSE None
                /\ id \notin DOMAIN before => bgApp' = bgApp]_vars

C20_Witness ==
    /\ bgLast.op = "disconnect" /\ bgLast.ret = None
    /\ FIRST_PORT_ID \in bgIds.connect
    /\ bgApp.last_request_id > 0

(***************************************************************************)
(* C21.  A message arriving for a port id that is not in the registry gets *)
(* NotConnected from next_request_id and post_message_js: no id is given,  *)
(* nothing is posted, and the App, the ports and the pending requests are  *)
(* as before, so the other events go on as they would have.  Whatever is   *)
(* posted is posted on a port that is connected: nothing reaches a port    *)
(* that has disconnected.                                                  *)
(***************************************************************************)
C21_UnknownPortIsNotConnected ==
    [][\A h \in Handles :
         (bgLast'.op = "port_message" /\ OnPortMessage(h)) =>
            LET id == Unwrap(bgPorts[h])
                ports == bgApp.connected_ports
            IN  /\ id \notin DOMAIN ports.ctx_by_id =>
                      /\ bgLast'.ret = None
                      /\ bgLast'.posted = None
                      /\ PostMessageJs(ports, id) = None
                      /\ bgApp' = bgApp
                      /\ bgPorts' = bgPorts
                      /\ bgPending' = bgPending
                      /\ bgStorage' = bgStorage
                /\ IsSome(bgLast'.posted) => IsSome(bgPorts'[Unwrap(bgLast'.posted)])]_vars

\* A message arrived for an id the registry no longer holds, while a
\* one-shot request is still waiting to be served.
C21_Witness ==
    /\ bgLast.op = "port_message"
    /\ bgLast.ret = None
    /\ \E h \in Handles : IsSome(bgPorts[h])
    /\ bgPending # << >>

(***************************************************************************)
(* C22.  After an Unlock or Login request was answered without an error    *)
(* the shared App holds the key pair, and it goes on holding it whatever   *)
(* request is handled next; after one answered with an error the shared    *)
(* App holds what it held before.  The code breaks it: unlock and login    *)
(* run on app.take(), so the key pair is set on an App that is dropped     *)
(* when the request ends, and the shared App is left as App::default().    *)
(***************************************************************************)
C22_UnlockLeavesVaultUnlocked ==
    [][/\ (bgLast'.op \in {"Unlock", "Login"} /\ IsSome(bgLast'.ret)) =>
            IF Unwrap(bgLast'.ret).res = "Ok"
            THEN IsSome(bgApp'.key_pair)
            ELSE bgApp'.key_pair = bgApp.key_pair
       /\ IsSome(bgApp.key_pair) => IsSome(bgApp'.key_pair)]_vars

(***************************************************************************)
(* C23.  verify(P, token) answers the message exactly when the token was   *)
(* made by sign with the private key whose public key is P, and rejects    *)
(* every other token.  The code breaks it: the box sign seals with is the  *)
(* Diffie-Hellman box of the signer's key and the all-zero key, and the    *)
(* all-zero key is public, so whoever has P can seal a token that          *)
(* verify(P, ..) accepts.                                                  *)
(***************************************************************************)
C23_VerifyAcceptsOnlySigned ==
    IsSome(verified) =>
        LET v == Unwrap(verified) IN
        v.res = IF /\ v.token.how = "sign"
                   /\ PublicKeyOf(v.token.sealed_with) = v.public_key
                THEN Some(v.token.value.cipher.msg)
                ELSE None

\* The documents a store state holds for a public key.
DocsOf(usrs, pk) == IF IsSome(usrs[pk]) THEN Unwrap(usrs[pk]) ELSE << >>

(***************************************************************************)
(* C24.  delete(site, username) and edit(site, username, p) leave every    *)
(* credential of another (site, username) pair as it was, in the store and *)
(* in the cache: none is removed, none is added, none changes.  The code   *)
(* breaks it: the id is the hash of site ++ username, so ("a", "bc") and   *)
(* ("ab", "c") have one id, and the store removes or rewrites every        *)
(* document with that id.                                                  *)
(***************************************************************************)
C24_DeleteEditTouchOnlyThePair ==
    [][\A d \in Devices : \A pr \in Pairs : \A o \in Outcomes : \A w \in Bools :
         (/\ last'.op \in {"delete", "edit"}
          /\ \/ Delete(d, pr[1], pr[2], o, w)
             \/ \E p \in EditedPlaintexts : Edit(d, pr[1], pr[2], p, o, w)) =>
            LET kp == Unwrap(app[d]).key_pair
                Other(c) == ~(c.site = pr[1] /\ Decrypt(kp, c.username) = pr[2])
            IN  /\ SelectSeq(DocsOf(users', GetPk(kp)), Other)
                      = SelectSeq(DocsOf(users, GetPk(kp)), Other)
                /\ IsSome(app'[d]) =>
                      LET before == Unwrap(app[d]).credentials
                          after == Unwrap(app'[d]).credentials
                      IN  /\ \A s \in DOMAIN before : \A i \in DOMAIN before[s] :
                                Other(before[s][i]) =>
                                   /\ s \in DOMAIN after
                                   /\ i \in DOMAIN after[s]
                                   /\ after[s][i] = before[s][i]
                          /\ \A s \in DOMAIN after : \A i \in DOMAIN after[s] :
                                Other(after[s][i]) =>
                                   (s \in DOMAIN before /\ i \in DOMAIN before[s])]_vars

(***************************************************************************)
(* C25.  The response to a message that arrived on a port is posted on     *)
(* that port and on no other.  The code breaks it: every port gets the id  *)
(* 1 (see C17), the registry holds under 1 the port that connected last,   *)
(* and the response to a message of an earlier port is posted there.       *)
(***************************************************************************)
C25_ResponseOnTheSamePort ==
    [][\A h \in Handles :
         (bgLast'.op = "port_message" /\ OnPortMessage(h) /\ IsSome(bgLast'.posted))
            => Unwrap(bgLast'.posted) = h]_vars

(***************************************************************************)
(* C26.  In every state the registry holds exactly the ports that have     *)
(* connected and not yet disconnected, each under the id its listeners     *)
(* captured.  The code breaks it twice: a second connect replaces the      *)
(* context of the first port (see C17), and handling GetStatus, Unlock or  *)
(* Login leaves App::default() behind, whose registry is empty.            *)
(***************************************************************************)
C26_RegistryHoldsConnectedPorts ==
    LET ctx_by_id == bgApp.connected_ports.ctx_by_id IN
    /\ \A h \in Handles :
          IsSome(bgPorts[h]) =>
             /\ Unwrap(bgPorts[h]) \in DOMAIN ctx_by_id
             /\ ctx_by_id[Unwrap(bgPorts[h])].port = h
    /\ \A id \in DOMAIN ctx_by_id : IsSome(bgPorts[ctx_by_id[id].port])

(***************************************************************************)
(* C27.  Every credential in the cache of an unlocked vault has the        *)
(* vault's own public key as its user_id.  The code breaks it: auth_device *)
(* writes the new identity's key before it syncs and leaves the cache file *)
(* of the earlier identity in place when the sync fails, and App::new then *)
(* loads that file under the new key.                                      *)
(***************************************************************************)
C27_CacheBelongsToTheVault ==
    \A d \in Devices :
        IsSome(app[d]) =>
            LET a == Unwrap(app[d]) IN
            \A s \in DOMAIN a.credentials : \A i \in DOMAIN a.credentials[s] :
                a.credentials[s][i].user_id = GetPk(a.key_pair)

(***************************************************************************)
(* C28.  The store never holds, for one identity, two credentials with the *)
(* same id.  The code breaks it: add_password is an $addToSet of the whole *)
(* document, and two adds of one (site, username) pair seal the fields     *)
(* under different nonces, so the second document is not equal to the      *)
(* first and is appended next to it.                                       *)
(***************************************************************************)
C28_NoTwoStoredCredentialsWithOneId ==
    \A pk \in PublicKeys :
        \A i, j \in 1..Len(DocsOf(users, pk)) :
            i # j => DocsOf(users, pk)[i].id # DocsOf(users, pk)[j].id

====
